---- MODULE Spec2Model ----
(***************************************************************************)
(* The call lifecycle of ChatComponent (src/src/components/                *)
(* ChatComponent.tsx): React state and refs, the socket handlers the       *)
(* effect registers, startCall / cleanupCall / handleButtonClick, the      *)
(* timers they arm, and the asynchronous steps they suspend on.            *)
(*                                                                         *)
(* One action is one run-to-completion step of the JavaScript event loop:  *)
(* a socket event, a click, a timer, an engine event, a render, or the     *)
(* settling of one awaited promise together with the code that follows it  *)
(* up to the next await.                                                   *)
(***************************************************************************)
EXTENDS Integers, Sequences, FiniteSets, TLC

\* ---- bounds of the model ----
MaxRooms == 2      \* pairings the server issues
MaxRoomsExt == 1   \* ... in the specifications with a wider environment
MaxPc == 2         \* RTCPeerConnection objects created
MaxStreams == 2    \* MediaStream objects getUserMedia grants
MaxTasks == 2      \* async functions suspended at the same time
MaxTimers == 1     \* pending 500 ms rematch timers
MaxFind == 1       \* findPartner requests the server has not answered
MaxCands == 2      \* remote ICE candidates one connection receives
MaxCount == 2      \* saturation of the count of rematch timers scheduled
MaxToggles == 1    \* clicks on the auto-search toggle

\* null / undefined of the source
Null == 0

Min(a, b) == IF a < b THEN a ELSE b

\* ---- the values of `status` the code sets ----
StIdle == "Idle"
StPartnerFound == "Partner found, starting call..."
StInit == "Initializing call..."
StError == "Error"
StSearching == "Searching for a partner..."
StRequesting == "Requesting audio permissions..."
StGranted == "Audio access granted. Searching for a partner..."

VARIABLES
  roomId,             \* useState roomId: the latest value set (Null or a room)
  status,             \* useState status: the latest value set
  error,              \* useState error: "none" (null), or the message set:
                      \* "media", "engine", "type" (180) or "audio" (221)
  autoSearch,         \* useState autoSearch: the latest value set
  rRoomId,            \* roomId as the last render saw it (button closures)
  rAutoSearch,        \* autoSearch as the last render saw it
  hRoomId,            \* roomId captured by the handlers the effect registered
  hAutoSearch,        \* autoSearch captured by those handlers
  disconnectHandlers, \* captured autoSearch of every 'disconnect' listener
  peerConnectionRef,  \* peerConnectionRef.current: Null or an index of pcs
  pcs,                \* every RTCPeerConnection created so far
  localStreamRef,     \* localStreamRef.current: Null or an index of streams
  streams,            \* every MediaStream acquired: TRUE while its tracks run
  tasks,              \* suspended async functions (startCall, handlers, click)
  connTimers,         \* pcs whose 10 s connectionTimeout is still armed
  rematchTimers,      \* pending 500 ms findPartner timers
  sockUp,             \* the signaling socket is connected
  pendingFind,        \* findPartner emitted and not yet answered
  nRooms,             \* rooms issued so far by the pairing server
  nToggle,            \* clicks on the auto-search toggle so far
  emitted,            \* messages the last step passed to socket.emit
  offered,            \* roomIds an offer has been emitted for
  ended,              \* rooms whose session cleanupCall has cleared
  sched               \* rematch timers scheduled since the last partnerFound

vars == <<roomId, status, error, autoSearch, rRoomId, rAutoSearch, hRoomId,
          hAutoSearch, disconnectHandlers, peerConnectionRef, pcs,
          localStreamRef, streams, tasks, connTimers, rematchTimers, sockUp,
          pendingFind, nRooms, nToggle, emitted, offered, ended, sched>>

\* The part of the state the handlers read and write, as one value.
World ==
  [roomId |-> roomId, status |-> status, error |-> error,
   pc |-> peerConnectionRef, pcs |-> pcs, ls |-> localStreamRef,
   streams |-> streams, tasks |-> tasks, connTimers |-> connTimers,
   rematch |-> rematchTimers, pendingFind |-> pendingFind,
   emitted |-> {}, offered |-> offered,
   ended |-> ended, sched |-> sched]

\* socket.emit(type, { roomId: room, ... })
Msg(type, room) == [type |-> type, room |-> room]

\* new RTCPeerConnection(rtcConfig), with the autoSearch its startCall closes over
NewPc(auto) ==
  [closed |-> FALSE, conn |-> "new", sig |-> "stable", remote |-> FALSE,
   tracks |-> FALSE, recv |-> <<>>, applied |-> <<>>, chained |-> <<>>,
   auto |-> auto]

Init ==
  /\ roomId = Null
  /\ status = StIdle
  /\ error = "none"
  /\ autoSearch = TRUE
  /\ rRoomId = Null
  /\ rAutoSearch = TRUE
  /\ hRoomId = Null
  /\ hAutoSearch = TRUE
  /\ disconnectHandlers = <<TRUE>>
  /\ peerConnectionRef = Null
  /\ pcs = <<>>
  /\ localStreamRef = Null
  /\ streams = <<>>
  /\ tasks = <<>>
  /\ connTimers = {}
  /\ rematchTimers = 0
  /\ sockUp = TRUE
  /\ pendingFind = 0
  /\ nRooms = 0
  /\ nToggle = 0
  /\ emitted = {}
  /\ offered = {}
  /\ ended = {}
  /\ sched = 0

\* ---- suspended async functions ----
\* pos names the await the function is suspended on:
\*   "gum"          startCall, line 148   getUserMedia
\*   "createOffer"  startCall, line 174
\*   "sldOffer"     startCall, line 175   setLocalDescription(offer)
\*   "srd"          'offer' handler, line 80   setRemoteDescription(offer)
\*   "createAnswer" 'offer' handler, line 81
\*   "sldAnswer"    'offer' handler, line 82   setLocalDescription(answer)
\*   "srdAnswer"    'answer' handler, line 89  setRemoteDescription(answer)
\*   "gumSearch"    handleButtonClick, line 212 getUserMedia
\* room, init: startCall's arguments (for "srdAnswer": the room the Answer
\* names);
\* inOffer: startCall was awaited by the 'offer' handler (line 78), whose
\* captured roomId is hRoom; pc: the connection the pending engine call was
\* made on; made: the connection this run of startCall created (line 125).
Task(pos, room, init, inOffer, hRoom, pc, made) ==
  [pos |-> pos, room |-> room, init |-> init,
   inOffer |-> inOffer, hRoom |-> hRoom, pc |-> pc, made |-> made]

StartPos == {"gum", "createOffer", "sldOffer"}
GumPos == {"gum", "gumSearch"}

RemoveAt(s, i) == [j \in 1..(Len(s) - 1) |-> IF j < i THEN s[j] ELSE s[j + 1]]
\* The function at index i makes its next engine call and suspends as x:
\* it goes behind the calls already pending, which the engine settles in
\* the order they were made.
Requeue(s, i, x) == Append(RemoveAt(s, i), x)
Inc(n) == Min(n + 1, MaxCount)

\* close() on connection p: nothing of it is observable afterwards but
\* that it is closed, and the autoSearch its timer's closure holds.
Closed(p) == [NewPc(p.auto) EXCEPT !.closed = TRUE]

\* The suspended functions after connection k (or none, Null) was closed:
\* an engine call pending on a closed connection never settles (the engine
\* aborts the operation), so the function awaiting it is never resumed.
Overtaken(ts, k) ==
  LET Alive(t) == k = Null \/ t.pc # k
  IN SelectSeq(ts, Alive)

\* ---- cleanupCall, lines 186-201 ----
\* A plausible slip: the status is re-derived only when a connection was
\* actually torn down.
cleanupCallOnlyIfCall(w, auto) ==
  LET hadPc == w.pc # Null
  IN [w EXCEPT
        !.streams = IF w.ls # Null THEN [@ EXCEPT ![w.ls] = FALSE] ELSE @,
        !.ls = Null,
        !.pcs = IF w.pc # Null THEN [@ EXCEPT ![w.pc] = Closed(@)] ELSE @,
        !.pc = Null,
        !.roomId = Null,
        !.status = IF auto /\ hadPc THEN StSearching ELSE StIdle,
        !.rematch = IF auto THEN @ + 1 ELSE @,
        !.ended = IF w.roomId # Null THEN @ \cup {w.roomId} ELSE @,
        !.sched = IF auto THEN Inc(@) ELSE @,
        !.tasks = Overtaken(@, w.pc)]

cleanupCall(w, auto) ==
  [w EXCEPT
     \* 187-190: stop the tracks of the stored stream and drop it
     !.streams = IF w.ls # Null THEN [@ EXCEPT ![w.ls] = FALSE] ELSE @,
     !.ls = Null,
     \* 191-192: close and drop the connection
     !.pcs = IF w.pc # Null THEN [@ EXCEPT ![w.pc] = Closed(@)] ELSE @,
     !.pc = Null,
     \* 193-194
     !.roomId = Null,
     \* 194-196: 'Idle', overwritten by 'Searching...' when autoSearch
     !.status = IF auto THEN StSearching ELSE StIdle,
     \* 197-199: setTimeout(() => socket.emit('findPartner'), 500)
     !.rematch = IF auto THEN @ + 1 ELSE @,
     \* bookkeeping: the room just cleared, the timers scheduled, and the
     \* suspended functions that cleanup has overtaken
     !.ended = IF w.roomId # Null THEN @ \cup {w.roomId} ELSE @,
     !.sched = IF auto THEN Inc(@) ELSE @,
     !.tasks = Overtaken(@, w.pc)]

\* ---- startCall, lines 122-183 ----
\* catch (err), lines 178-182; err.message tells what was thrown: "media"
\* when getUserMedia rejected, "engine" when createOffer or
\* setLocalDescription rejected, "type" for the TypeError of a null ref.
startCallCatch(w, message) == [w EXCEPT !.error = message, !.status = StError]

\* The body of the 'offer' handler from line 79 on, for the function at
\* index i of tasks: with a connection, call setRemoteDescription on it and
\* suspend; without, the handler is over.
offerBody(w, i) ==
  IF w.pc = Null
    THEN [w EXCEPT !.tasks = RemoveAt(@, i)]
    ELSE [w EXCEPT !.tasks = Requeue(@, i,
            [@[i] EXCEPT !.pos = "srd", !.pc = w.pc])]

\* startCall has returned: the 'offer' handler that awaited it goes on,
\* a partnerFound handler is over.
startCallReturn(w, i) ==
  IF w.tasks[i].inOffer
    THEN offerBody(w, i)
    ELSE [w EXCEPT !.tasks = RemoveAt(@, i)]

\* Lines 123-148, for a non-null room: create the connection, arm the
\* timeout, install onconnectionstatechange, call getUserMedia and suspend.
startCall(w, room, init, auto, inOffer, hRoom) ==
  LET k == Len(w.pcs) + 1
  IN [w EXCEPT
        !.pcs = Append(@, NewPc(auto)),
        !.pc = k,
        !.status = StInit,
        !.connTimers = @ \cup {k},
        !.tasks = Append(@, Task("gum", room, init, inOffer, hRoom, Null, k))]

\* ---- the peer engine's view of a description being set ----
\* A description has been applied to connection p: the signaling state
\* moves to sig, a remote description is present from now on when
\* setsRemote, and the addIceCandidate calls chained behind the operation
\* run: applied when a remote description exists, rejected otherwise.
Described(p, sig, setsRemote) ==
  LET r == p.remote \/ setsRemote
  IN [p EXCEPT !.sig = sig, !.remote = r,
               !.applied = IF r THEN @ \o p.chained ELSE @,
               !.chained = <<>>]

\* setRemoteDescription was rejected: the chained addIceCandidate calls run
\* against the descriptions as they were.
SrdFailed(p) ==
  [p EXCEPT !.applied = IF p.remote THEN @ \o p.chained ELSE @,
            !.chained = <<>>]

\* A setRemoteDescription is pending on connection k.
SrdPending(w, k) ==
  \E j \in DOMAIN w.tasks :
    w.tasks[j].pos \in {"srd", "srdAnswer"} /\ w.tasks[j].pc = k

\* The engine can resolve the call task t is suspended on.  A closed
\* connection resolves nothing; createAnswer and setLocalDescription(answer)
\* need a remote offer, setRemoteDescription(answer) a local offer,
\* setLocalDescription(offer) no remote offer.
CanResolve(w, t) ==
  CASE t.pos \in GumPos -> TRUE
    [] t.pos = "createOffer" -> ~w.pcs[t.pc].closed
    [] t.pos = "sldOffer" ->
         ~w.pcs[t.pc].closed /\ w.pcs[t.pc].sig \in {"stable", "have-local-offer"}
    [] t.pos = "srd" -> ~w.pcs[t.pc].closed
    [] t.pos \in {"createAnswer", "sldAnswer"} ->
         ~w.pcs[t.pc].closed /\ w.pcs[t.pc].sig = "have-remote-offer"
    [] t.pos = "srdAnswer" ->
         ~w.pcs[t.pc].closed /\ w.pcs[t.pc].sig = "have-local-offer"

\* ---- what follows each await ----
\* A plausible slip: the role is not consulted, both sides make an Offer.
startCallGotStreamAnyRole(w, i) ==
  LET t == w.tasks[i]
      s == Len(w.streams) + 1
      w1 == [w EXCEPT
               !.streams = Append(@, TRUE),
               !.ls = s,
               !.pcs = IF w.pc # Null THEN [@ EXCEPT ![w.pc].tracks = TRUE] ELSE @]
  IN IF w.pc = Null
       THEN startCallReturn(startCallCatch(w1, "type"), i)
       ELSE [w1 EXCEPT !.tasks = Requeue(@, i,
               [t EXCEPT !.pos = "createOffer", !.pc = w.pc])]

\* startCall after getUserMedia resolved, lines 149-177.
startCallGotStream(w, i) ==
  LET t == w.tasks[i]
      s == Len(w.streams) + 1
      \* 149: the new stream replaces whatever localStreamRef held;
      \* 155-157: addTrack on the current connection, if any
      w1 == [w EXCEPT
               !.streams = Append(@, TRUE),
               !.ls = s,
               !.pcs = IF w.pc # Null THEN [@ EXCEPT ![w.pc].tracks = TRUE] ELSE @]
  IN IF w.pc = Null
       THEN \* 160: peerConnectionRef.current.ontrack = ... throws on null
            startCallReturn(startCallCatch(w1, "type"), i)
       ELSE IF t.init
         THEN \* 174: createOffer on the current connection
              [w1 EXCEPT !.tasks = Requeue(@, i,
                 [t EXCEPT !.pos = "createOffer", !.pc = w.pc])]
         ELSE startCallReturn(w1, i)

\* startCall after createOffer resolved, line 175.
startCallGotOffer(w, i) ==
  IF w.pc = Null
    THEN startCallReturn(startCallCatch(w, "type"), i)
    ELSE [w EXCEPT !.tasks = Requeue(@, i,
            [@[i] EXCEPT !.pos = "sldOffer", !.pc = w.pc])]

\* startCall after setLocalDescription(offer) resolved, line 176.
startCallSendOffer(w, i) ==
  LET t == w.tasks[i]
  IN startCallReturn(
       [w EXCEPT !.pcs[t.pc] = Described(@, "have-local-offer", FALSE),
                 !.emitted = @ \cup {Msg("offer", t.room)},
                 !.offered = @ \cup {t.room}], i)

\* 'offer' handler after setRemoteDescription(offer) resolved, line 81.
offerGotRemote(w, i) ==
  LET t == w.tasks[i]
      w1 == [w EXCEPT !.pcs[t.pc] = Described(@, "have-remote-offer", TRUE)]
  IN IF w.pc = Null
       THEN [w1 EXCEPT !.tasks = RemoveAt(@, i)]
       ELSE [w1 EXCEPT !.tasks = Requeue(@, i,
               [t EXCEPT !.pos = "createAnswer", !.pc = w.pc])]

\* 'offer' handler after createAnswer resolved, line 82.
offerGotAnswer(w, i) ==
  IF w.pc = Null
    THEN [w EXCEPT !.tasks = RemoveAt(@, i)]
    ELSE [w EXCEPT !.tasks = Requeue(@, i,
            [@[i] EXCEPT !.pos = "sldAnswer", !.pc = w.pc])]

\* 'offer' handler after setLocalDescription(answer) resolved, line 83:
\* the answer goes out under the roomId the handler closed over.
offerSendAnswer(w, i) ==
  LET t == w.tasks[i]
  IN [w EXCEPT !.pcs[t.pc] = Described(@, "stable", FALSE),
               !.emitted = @ \cup {Msg("answer", t.hRoom)},
               !.tasks = RemoveAt(@, i)]

\* 'answer' handler after setRemoteDescription(answer) resolved, line 90.
answerGotRemote(w, i) ==
  LET t == w.tasks[i]
  IN [w EXCEPT !.pcs[t.pc] = Described(@, "stable", TRUE),
               !.tasks = RemoveAt(@, i)]

\* handleButtonClick after getUserMedia resolved, lines 213-218.
clickGotStream(w, i) ==
  [w EXCEPT !.streams = Append(@, TRUE),
            !.ls = Len(w.streams) + 1,
            !.status = StGranted,
            !.emitted = @ \cup {Msg("findPartner", Null)},
            !.pendingFind = @ + 1,
            !.tasks = RemoveAt(@, i)]

\* handleButtonClick, catch, lines 219-223.
clickCatch(w, i) ==
  [w EXCEPT !.error = "audio", !.status = StIdle, !.tasks = RemoveAt(@, i)]

\* The awaited promise of the function at index i resolves.
Resolved(w, i) ==
  LET pos == w.tasks[i].pos
  IN CASE pos = "gum" -> startCallGotStream(w, i)
       [] pos = "createOffer" -> startCallGotOffer(w, i)
       [] pos = "sldOffer" -> startCallSendOffer(w, i)
       [] pos = "srd" -> offerGotRemote(w, i)
       [] pos = "createAnswer" -> offerGotAnswer(w, i)
       [] pos = "sldAnswer" -> offerSendAnswer(w, i)
       [] pos = "srdAnswer" -> answerGotRemote(w, i)
       [] pos = "gumSearch" -> clickGotStream(w, i)

\* The awaited promise of the function at index i rejects: startCall
\* catches (178-182) and returns; handleButtonClick catches (219-223); the
\* 'offer' and 'answer' handlers have no catch and simply end.
Rejected(w, i) ==
  LET t == w.tasks[i]
  IN CASE t.pos = "gum" -> startCallReturn(startCallCatch(w, "media"), i)
       [] t.pos \in StartPos -> startCallReturn(startCallCatch(w, "engine"), i)
       [] t.pos = "gumSearch" -> clickCatch(w, i)
       [] t.pos \in {"srd", "srdAnswer"} ->
            [w EXCEPT !.pcs[t.pc] = SrdFailed(@), !.tasks = RemoveAt(@, i)]
       [] OTHER -> [w EXCEPT !.tasks = RemoveAt(@, i)]

\* ---- actions ----
\* The handlers' part of the next state is w, within the model's bounds.
Commit(w) ==
  /\ Len(w.pcs) <= MaxPc
  /\ Len(w.tasks) <= MaxTasks
  /\ w.rematch <= MaxTimers
  /\ w.pendingFind <= MaxFind
  /\ Len(w.streams) <= MaxStreams
  /\ roomId' = w.roomId
  /\ status' = w.status
  /\ error' = w.error
  /\ peerConnectionRef' = w.pc
  /\ pcs' = w.pcs
  /\ localStreamRef' = w.ls
  /\ streams' = w.streams
  /\ tasks' = w.tasks
  /\ connTimers' = w.connTimers
  /\ rematchTimers' = w.rematch
  /\ pendingFind' = w.pendingFind
  /\ emitted' = w.emitted
  /\ offered' = w.offered
  /\ ended' = w.ended
  /\ sched' = w.sched

closures == <<rRoomId, rAutoSearch, hRoomId, hAutoSearch, disconnectHandlers>>
env == <<sockUp, nRooms, nToggle>>

\* The server delivers a message that names room r: the socket is
\* connected and the room is one the server has issued.
CanRelay(r) ==
  /\ sockUp
  /\ r \in 1..nRooms

\* socket.on('partnerFound'), lines 71-75: the server answers one
\* findPartner with a fresh room and a role.
PartnerFound(init, rooms) ==
  /\ sockUp
  /\ pendingFind > 0
  /\ nRooms < rooms
  /\ LET r == nRooms + 1
         w0 == [World EXCEPT !.roomId = r, !.status = StPartnerFound,
                             !.pendingFind = @ - 1, !.sched = 0]
     IN /\ Commit(startCall(w0, r, init, hAutoSearch, FALSE, Null))
        /\ nRooms' = r
  /\ UNCHANGED <<autoSearch, closures, sockUp, nToggle>>

\* socket.on('offer'), lines 77-79, for an Offer that names room r.
onOffer(w) ==
  IF w.pc = Null
    THEN IF hRoomId = Null
           THEN w   \* startCall(null) returns at line 123; line 79 sees no connection
           ELSE startCall(w, hRoomId, FALSE, hAutoSearch, TRUE, hRoomId)
    ELSE [w EXCEPT !.tasks = Append(@,
            Task("srd", Null, FALSE, TRUE, hRoomId, w.pc, Null))]

OfferMsg(r) ==
  /\ CanRelay(r)
  /\ Commit(onOffer(World))
  /\ UNCHANGED <<autoSearch, closures, env>>

\* socket.on('answer'), lines 87-89, for an Answer that names room r: the
\* handler does not read r; the suspended call keeps it as the room the
\* description it is applying was made for.
onAnswer(w, r) ==
  IF w.pc = Null
    THEN w
    ELSE [w EXCEPT !.tasks = Append(@,
            Task("srdAnswer", r, FALSE, FALSE, Null, w.pc, Null))]

AnswerMsg(r) ==
  /\ CanRelay(r)
  /\ Commit(onAnswer(World, r))
  /\ UNCHANGED <<autoSearch, closures, env>>

\* A plausible slip: a candidate the engine rejects ends the session.
onIceCandidateFatal(w, c, wellFormed) ==
  IF w.pc = Null
    THEN w
    ELSE LET p == w.pcs[w.pc]
         IN IF ~wellFormed
              THEN cleanupCall(w, hAutoSearch)
              ELSE IF SrdPending(w, w.pc)
                THEN [w EXCEPT !.pcs[w.pc].recv = Append(@, c),
                               !.pcs[w.pc].chained = Append(@, c)]
                ELSE IF p.remote
                  THEN [w EXCEPT !.pcs[w.pc].recv = Append(@, c),
                                 !.pcs[w.pc].applied = Append(@, c)]
                  ELSE cleanupCall(w, hAutoSearch)

\* socket.on('ice-candidate'), lines 93-101, for candidate c; wellFormed
\* is whether the engine can parse it.  addIceCandidate runs behind a
\* pending setRemoteDescription; otherwise it is applied when a remote
\* description exists and rejected (caught and logged) when none does.
onIceCandidate(w, c, wellFormed) ==
  IF w.pc = Null
    THEN w
    ELSE LET p == w.pcs[w.pc]
         IN IF ~wellFormed
              THEN w
              ELSE IF SrdPending(w, w.pc)
                THEN [w EXCEPT !.pcs[w.pc].recv = Append(@, c),
                               !.pcs[w.pc].chained = Append(@, c)]
                ELSE IF p.remote
                  THEN [w EXCEPT !.pcs[w.pc].recv = Append(@, c),
                                 !.pcs[w.pc].applied = Append(@, c)]
                  ELSE [w EXCEPT !.pcs[w.pc].recv = Append(@, c)]

\* The candidates a connection receives are numbered in order of arrival.
IceMsg(r, wellFormed) ==
  /\ CanRelay(r)
  /\ peerConnectionRef # Null => Len(pcs[peerConnectionRef].recv) < MaxCands
  /\ LET c == IF peerConnectionRef = Null THEN 1
              ELSE Len(pcs[peerConnectionRef].recv) + 1
     IN Commit(onIceCandidate(World, c, wellFormed))
  /\ UNCHANGED <<autoSearch, closures, env>>

\* socket.on('hangup'), lines 103-106, for a Hangup that names room r.
onHangup(w) == cleanupCall([w EXCEPT !.status = "Partner hung up"], hAutoSearch)

HangupMsg(r) ==
  /\ CanRelay(r)
  /\ Commit(onHangup(World))
  /\ UNCHANGED <<autoSearch, closures, env>>

\* socket.on('disconnect'), lines 108-111: every listener still registered
\* runs, each with the cleanupCall of the render that registered it.
RECURSIVE onDisconnect(_, _)
onDisconnect(w, hs) ==
  IF hs = <<>>
    THEN w
    ELSE onDisconnect(
           cleanupCall([w EXCEPT !.status = "Disconnected from server"], Head(hs)),
           Tail(hs))

Disconnect ==
  /\ sockUp
  /\ sockUp' = FALSE
  /\ Commit(onDisconnect([World EXCEPT !.pendingFind = 0], disconnectHandlers))
  /\ UNCHANGED <<autoSearch, closures, nRooms, nToggle>>

\* socket.io reconnects on its own.
Reconnect ==
  /\ ~sockUp
  /\ emitted' = {}
  /\ sockUp' = TRUE
  /\ UNCHANGED <<roomId, status, error, autoSearch, closures, peerConnectionRef,
                 pcs, localStreamRef, streams, tasks, connTimers, rematchTimers,
                 pendingFind, nRooms, nToggle, offered, ended, sched>>

\* connectionState as line 130 and line 137 read it off the ref.
RefConnectionState(w) ==
  IF w.pc = Null THEN "undefined"
  ELSE IF w.pcs[w.pc].closed THEN "closed" ELSE w.pcs[w.pc].conn

\* The connection states the engine can move connection p to.
NextConn(p) ==
  CASE p.conn = "new" ->
         {"failed"} \cup (IF p.remote /\ p.sig = "stable" THEN {"connected"} ELSE {})
    [] p.conn = "connected" -> {"disconnected", "failed"}
    [] p.conn = "disconnected" -> {"connected", "failed"}
    [] OTHER -> {}

\* A plausible slip: every state change is taken for the end of the call.
onconnectionstatechangeAlwaysEnds(w, k) ==
  cleanupCall([w EXCEPT !.connTimers = @ \ {k}], w.pcs[k].auto)

\* onconnectionstatechange of connection k, lines 136-145.
onconnectionstatechange(w, k) ==
  LET state == RefConnectionState(w)
      w1 == IF state = "connected"
              THEN [w EXCEPT !.connTimers = @ \ {k}]
              ELSE w
  IN IF state \in {"disconnected", "failed", "closed"}
       THEN cleanupCall(w1, w.pcs[k].auto)
       ELSE w1

ConnChange(k, s) ==
  /\ k \in DOMAIN pcs
  /\ ~pcs[k].closed
  /\ s \in NextConn(pcs[k])
  /\ Commit(onconnectionstatechange([World EXCEPT !.pcs[k].conn = s], k))
  /\ UNCHANGED <<autoSearch, closures, env>>

\* A plausible slip: the timeout gives up only on a connection that has
\* already reported a failure.
connectionTimeoutOnlyFailed(w, k) ==
  LET w1 == [w EXCEPT !.connTimers = @ \ {k}]
  IN IF RefConnectionState(w) \in {"failed", "disconnected"}
       THEN cleanupCall(w1, w.pcs[k].auto)
       ELSE w1

\* connectionTimeout of the startCall that created connection k, lines 129-134.
connectionTimeout(w, k) ==
  LET w1 == [w EXCEPT !.connTimers = @ \ {k}]
  IN IF RefConnectionState(w) # "connected"
       THEN cleanupCall(w1, w.pcs[k].auto)
       ELSE w1

Timeout(k) ==
  /\ k \in connTimers
  /\ Commit(connectionTimeout(World, k))
  /\ UNCHANGED <<autoSearch, closures, env>>

\* The 500 ms timer of cleanupCall fires, lines 197-199.
RematchFire ==
  /\ rematchTimers > 0
  /\ Commit([World EXCEPT !.rematch = @ - 1, !.pendingFind = @ + 1,
                           !.emitted = {Msg("findPartner", Null)}])
  /\ UNCHANGED <<autoSearch, closures, env>>

\* handleButtonClick, lines 205-212, with the roomId and cleanupCall of the
\* last render.
handleButtonClick(w) ==
  IF rRoomId # Null
    THEN cleanupCall([w EXCEPT !.emitted = @ \cup {Msg("hangup", rRoomId)}], rAutoSearch)
    ELSE [w EXCEPT !.status = StRequesting,
                   !.tasks = Append(@,
                      Task("gumSearch", Null, FALSE, FALSE, Null, Null, Null))]

Click ==
  /\ Commit(handleButtonClick(World))
  /\ UNCHANGED <<autoSearch, closures, env>>

\* toggleAutoSearch, lines 227-229.
toggleAutoSearch ==
  /\ nToggle < MaxToggles
  /\ nToggle' = nToggle + 1
  /\ emitted' = {}
  /\ autoSearch' = ~rAutoSearch
  /\ UNCHANGED <<roomId, status, error, closures, peerConnectionRef, pcs,
                 localStreamRef, streams, tasks, connTimers, rematchTimers,
                 sockUp, pendingFind, nRooms, offered, ended, sched>>

\* React renders with the latest state; the effect of lines 70-120 runs
\* again when roomId differs from the last render's: it removes every
\* listener but 'disconnect' (113-119) and registers new ones (71-111).
Render ==
  /\ <<roomId, autoSearch>> # <<rRoomId, rAutoSearch>>
  /\ rRoomId' = roomId
  /\ rAutoSearch' = autoSearch
  /\ emitted' = {}
  /\ IF roomId # rRoomId
       THEN /\ hRoomId' = roomId
            /\ hAutoSearch' = autoSearch
            /\ disconnectHandlers' = Append(disconnectHandlers, autoSearch)
       ELSE UNCHANGED <<hRoomId, hAutoSearch, disconnectHandlers>>
  /\ UNCHANGED <<roomId, status, error, autoSearch, peerConnectionRef, pcs,
                 localStreamRef, streams, tasks, connTimers, rematchTimers,
                 sockUp, pendingFind, nRooms, nToggle, offered, ended, sched>>

\* Engine calls on one connection settle in the order they were made,
\* which is their order in tasks.
FirstOnItsPc(i) ==
  \A j \in 1..(i - 1) : tasks[i].pc = Null \/ tasks[j].pc # tasks[i].pc

\* The promise the function at index i awaits resolves, and the function
\* runs on to its next await.
Resume(i) ==
  /\ i \in DOMAIN tasks
  /\ FirstOnItsPc(i)
  /\ CanResolve(World, tasks[i])
  /\ Commit(Resolved(World, i))
  /\ UNCHANGED <<autoSearch, closures, env>>

\* The promise the function at index i awaits rejects: media denied, or the
\* engine refuses the description or the call.
Fail(i) ==
  /\ i \in DOMAIN tasks
  /\ FirstOnItsPc(i)
  /\ Commit(Rejected(World, i))
  /\ UNCHANGED <<autoSearch, closures, env>>

\* Pairing, negotiation, user clicks, engine events, timers and renders,
\* with the server issuing at most `rooms` rooms.
Core(rooms) ==
  \/ \E init \in BOOLEAN : PartnerFound(init, rooms)
  \/ \E r \in 1..MaxRooms : OfferMsg(r)
  \/ \E r \in 1..MaxRooms : AnswerMsg(r)
  \/ \E r \in 1..MaxRooms : HangupMsg(r)
  \/ \E k \in 1..MaxPc, s \in {"connected", "disconnected", "failed"} : ConnChange(k, s)
  \/ \E k \in 1..MaxPc : Timeout(k)
  \/ RematchFire
  \/ Click
  \/ Render
  \/ \E i \in 1..MaxTasks : Resume(i)
  \/ \E i \in 1..MaxTasks : Fail(i)

Next == Core(MaxRooms)

Spec == Init /\ [][Next]_vars

\* ... with remote ICE candidates arriving.
NextIce ==
  \/ Core(MaxRoomsExt)
  \/ \E r \in 1..MaxRooms, wellFormed \in BOOLEAN : IceMsg(r, wellFormed)

SpecIce == Init /\ [][NextIce]_vars

\* ... with the signaling transport dropping and coming back.
NextTransport ==
  \/ Core(MaxRoomsExt)
  \/ Disconnect
  \/ Reconnect

SpecTransport == Init /\ [][NextTransport]_vars

\* ... with the user switching auto-search.
NextToggle ==
  \/ Core(MaxRoomsExt)
  \/ toggleAutoSearch

SpecToggle == Init /\ [][NextToggle]_vars

\* socket.on('offer'), lines 77-79, run for the Offer of a pairing the
\* server has made for an outstanding findPartner and whose partnerFound
\* this client has not handled yet.
EarlyOfferMsg ==
  /\ sockUp
  /\ pendingFind > 0
  /\ nRooms < MaxRoomsExt
  /\ Commit(onOffer(World))
  /\ UNCHANGED <<autoSearch, closures, env>>

\* ... with the partner's Offer overtaking partnerFound.
NextEarly ==
  \/ Core(MaxRoomsExt)
  \/ EarlyOfferMsg

SpecEarly == Init /\ [][NextEarly]_vars

\* ---- what the claims speak of ----
LivePcs == {k \in DOMAIN pcs : ~pcs[k].closed}
LiveStreams == {i \in DOMAIN streams : streams[i]}

\* The state of the call as the status surface shows it.
callState ==
  CASE status \in {StIdle, StRequesting} -> "Idle"
    [] status \in {StSearching, StGranted} -> "Searching"
    [] status = StError -> "Error"
    [] status \in {StPartnerFound, StInit} ->
         IF peerConnectionRef # Null /\ pcs[peerConnectionRef].conn = "connected"
           THEN "Active"
           ELSE "Negotiating"

\* What the claims call the observable state.
observable == <<status, roomId, peerConnectionRef, localStreamRef>>

\* C1: in every reachable state at most one peer connection is live
\* (created and not yet closed).
C1_AtMostOneLivePc == Cardinality(LivePcs) <= 1

\* C2: the peer connection handle is non-null if and only if the call state
\* is Negotiating or Active.
C2_PcIffNegotiatingOrActive ==
  (peerConnectionRef # Null) <=> (callState \in {"Negotiating", "Active"})

\* C3: once cleanup has cleared the session of room r, an Offer, Answer,
\* IceCandidate or Hangup that names r changes neither roomId, the peer
\* connection, the local source nor the status, and emits nothing.
C3_StaleMessageIsNoOp ==
  [][\A r \in ended :
       (r # roomId /\ (\/ OfferMsg(r) \/ AnswerMsg(r) \/ HangupMsg(r)
                       \/ \E wf \in BOOLEAN : IceMsg(r, wf)))
       => (UNCHANGED observable /\ emitted' = {})]_vars

\* C4: the candidates a connection received are all applied, once each and
\* in the order received, by the time its remote description is set and no
\* addIceCandidate waits behind a pending setRemoteDescription.
C4_CandidatesAppliedInOrder ==
  \A k \in LivePcs :
    (pcs[k].remote /\ pcs[k].chained = <<>>) => pcs[k].applied = pcs[k].recv

\* C5: from any reachable state, cleanupCall run twice in succession leaves
\* the same status, roomId, peer connection handle and local source (and
\* the same connections and streams) as cleanupCall run once.
C5_CleanupIdempotent ==
  \A auto \in BOOLEAN :
    LET once == cleanupCall(World, auto)
        twice == cleanupCall(once, auto)
    IN /\ <<twice.status, twice.roomId, twice.pc, twice.ls>>
            = <<once.status, once.roomId, once.pc, once.ls>>
       /\ twice.pcs = once.pcs
       /\ twice.streams = once.streams

\* C5, witness: cleanupCall has run a second time for the same session, on
\* the state the first run left.
C5_CleanedTwice ==
  /\ sched >= 2
  /\ roomId = Null
  /\ peerConnectionRef = Null
  /\ localStreamRef = Null
  /\ ended # {}

\* C6: for each ended session at most one rematch timer is scheduled.
C6_OneRematchPerSession == sched <= 1

\* C7: a transport disconnect runs cleanup, leaves the state Idle and
\* schedules no rematch.
C7_DisconnectEndsIdle ==
  [][Disconnect =>
       /\ status' = StIdle
       /\ roomId' = Null
       /\ peerConnectionRef' = Null
       /\ rematchTimers' = rematchTimers]_vars

\* C8: when startCall resumes from an await after cleanup has closed the
\* connection it created, it stores no local source, leaves none live and
\* changes neither the status nor the error.
C8_StaleStartCallDiscarded ==
  [][\A i \in DOMAIN tasks :
       (/\ tasks[i].pos \in StartPos
        /\ pcs[tasks[i].made].closed
        /\ Resume(i))
       => (/\ UNCHANGED <<localStreamRef, status, error>>
           /\ LiveStreams' = LiveStreams)]_vars

\* C9: no Offer or Answer is emitted for a room whose session has been
\* cleaned up.
C9_NoOfferAnswerAfterCleanup ==
  \A m \in emitted : m.type \in {"offer", "answer"} => m.room \notin ended

\* C10: in every reachable state at most one local media source is live.
C10_AtMostOneLiveStream == Cardinality(LiveStreams) <= 1

\* C11: when the Offer of a new pairing arrives while there is no peer
\* connection, the handler creates one and goes on to answer: the Offer is
\* not dropped.
C11_EarlyOfferNotDropped ==
  [][(EarlyOfferMsg /\ peerConnectionRef = Null)
       => (/\ peerConnectionRef' # Null
           /\ \E i \in DOMAIN tasks' : tasks'[i].inOffer)]_vars

\* C12: an Offer goes out only once the local description is set on the
\* connection; the call is Active only on a connection that has the remote
\* description of the Answer; and when the connection of a Negotiating
\* session reports connected, the call becomes Active.
C12_InitiatorReachesActive ==
  [][/\ (\E m \in emitted' : m.type = "offer")
          => \E k \in DOMAIN pcs' : pcs'[k].sig = "have-local-offer"
     /\ callState' = "Active" => pcs'[peerConnectionRef'].remote
     /\ (/\ callState = "Negotiating"
         /\ peerConnectionRef # Null
         /\ ConnChange(peerConnectionRef, "connected"))
          => callState' = "Active"]_vars

\* C12, witness: the initiator of the current room has sent its Offer,
\* applied the Answer, and the call is Active.
C12_InitiatorActive ==
  /\ callState = "Active"
  /\ roomId \in offered
  /\ pcs[peerConnectionRef].remote
  /\ pcs[peerConnectionRef].sig = "stable"

\* C13: a remote Hangup for the current room during an Active session
\* stops every local media track, closes and drops the peer connection,
\* clears roomId and leaves the call Idle (Searching when auto-search is
\* on); it emits no FindPartner itself and schedules exactly one rematch
\* timer when auto-search is on, none otherwise.
C13_HangupWhileActive ==
  [][(/\ callState = "Active"
      /\ roomId # Null
      /\ HangupMsg(roomId))
       => (/\ LiveStreams' = {}
           /\ pcs'[peerConnectionRef].closed
           /\ peerConnectionRef' = Null
           /\ roomId' = Null
           /\ callState' \in {"Idle", "Searching"}
           /\ emitted' = {}
           /\ rematchTimers' = rematchTimers + (IF hAutoSearch THEN 1 ELSE 0))]_vars

\* C14: while the controller holds a peer connection that has not reported
\* connected, the connectionTimeout armed with it is still pending; and
\* when a connectionTimeout fires in that situation it runs cleanup, with
\* the result a failed connection gives: the connection closed and dropped,
\* roomId cleared, the stored source stopped, the same status.  With timers
\* that fire, no session stays in Negotiating forever.
C14_NegotiatingEnds ==
  [][/\ (peerConnectionRef' # Null /\ pcs'[peerConnectionRef'].conn # "connected")
          => peerConnectionRef' \in connTimers'
     /\ \A k \in connTimers :
          (/\ peerConnectionRef # Null
           /\ pcs[peerConnectionRef].conn # "connected"
           /\ Timeout(k))
          => LET cur == peerConnectionRef
                 failed == onconnectionstatechange(
                             [World EXCEPT !.pcs[cur].conn = "failed"], cur)
             IN /\ pcs'[cur].closed
                /\ peerConnectionRef' = Null
                /\ roomId' = Null
                /\ localStreamRef' = Null
                /\ status' = failed.status
                /\ streams' = failed.streams
                /\ rematchTimers' = failed.rematch]_vars

\* C14, witness: the connectionTimeout of a session whose connection never
\* got a remote description has fired and cleanup has run: the connection
\* is closed, its timer is spent, startCall is still waiting for media.
C14_TimedOut ==
  /\ peerConnectionRef = Null
  /\ roomId = Null
  /\ nRooms = 1
  /\ Len(pcs) = 1
  /\ pcs[1].closed
  /\ connTimers = {}
  /\ ended = {1}
  /\ \E i \in DOMAIN tasks : tasks[i].pos = "gum" /\ tasks[i].made = 1
  /\ Len(tasks) = 1

\* C15: after getUserMedia was refused inside startCall (status 'Error',
\* the media error reported), no step but the user's click or a Hangup of
\* the partner schedules a rematch or emits FindPartner.
C15_NoRematchAfterCapabilityError ==
  [][(/\ status = StError
      /\ error = "media"
      /\ ~Click
      /\ ~\E r \in 1..MaxRooms : HangupMsg(r))
       => (/\ rematchTimers' <= rematchTimers
           /\ \A m \in emitted' : m.type # "findPartner")]_vars

\* C16: when the engine rejects createOffer, createAnswer,
\* setLocalDescription or setRemoteDescription, the session is cleaned up
\* in full: the connection the call was made on is closed, the handle and
\* roomId are cleared and the local source is released.
C16_NegotiationErrorCleansUp ==
  [][\A i \in DOMAIN tasks :
       (tasks[i].pos \notin GumPos /\ Fail(i))
       => (/\ pcs'[tasks[i].pc].closed
           /\ peerConnectionRef' = Null
           /\ roomId' = Null
           /\ localStreamRef' = Null
           /\ LiveStreams' = {})]_vars

\* C17: handling a remote ICE candidate, rejected by addIceCandidate or
\* not, changes neither roomId, the peer connection handle, the local
\* source nor the status and runs no cleanup; and a well-formed candidate
\* that arrives once the remote description is set is applied, whatever
\* was rejected before it.
C17_CandidateErrorNonFatal ==
  [][\A r \in 1..MaxRooms, wf \in BOOLEAN :
       IceMsg(r, wf)
       => (/\ UNCHANGED <<observable, error, streams, tasks, connTimers,
                          rematchTimers, ended, sched>>
           /\ LivePcs' = LivePcs
           /\ (/\ wf
               /\ peerConnectionRef # Null
               /\ pcs[peerConnectionRef].remote
               /\ ~SrdPending(World, peerConnectionRef))
                => pcs'[peerConnectionRef].applied
                     = Append(pcs[peerConnectionRef].applied,
                              Len(pcs[peerConnectionRef].recv) + 1))]_vars

\* C17, witness: the first candidate of the session was rejected (it came
\* before the remote description), the session went on, and the second
\* candidate has been applied.
C17_AppliedAfterRejection ==
  /\ peerConnectionRef # Null
  /\ roomId # Null
  /\ pcs[peerConnectionRef].remote
  /\ pcs[peerConnectionRef].recv = <<1, 2>>
  /\ pcs[peerConnectionRef].applied = <<2>>

\* C18: createOffer and createAnswer are pending only on a peer connection
\* the local tracks have already been added to.
C18_TracksBeforeNegotiation ==
  \A i \in DOMAIN tasks :
    tasks[i].pos \in {"createOffer", "createAnswer"} => pcs[tasks[i].pc].tracks

\* C19: the connectionTimeout of a session that has ended (its connection
\* is closed) or that is not the one the controller holds runs no cleanup:
\* it changes neither status, roomId, the peer connection nor the local
\* source, closes nothing and schedules no rematch.
C19_TimeoutOnlyOwnSession ==
  [][\A k \in connTimers :
       ((pcs[k].closed \/ peerConnectionRef # k) /\ Timeout(k))
       => (/\ UNCHANGED <<observable, streams, rematchTimers>>
           /\ LivePcs' = LivePcs)]_vars

\* C20: once the user has switched auto-search off and the component has
\* rendered with it, no step schedules a rematch or moves to Searching:
\* every cleanup ends in Idle.
C20_CleanupUsesCurrentFlag ==
  [][(~autoSearch /\ ~rAutoSearch /\ ~toggleAutoSearch)
       => (/\ rematchTimers' <= rematchTimers
           /\ status' = StSearching => status = StSearching)]_vars

\* C21: every Answer emitted carries the roomId of the latest partnerFound,
\* never null and never an earlier room.
C21_AnswerCarriesCurrentRoom ==
  \A m \in emitted : m.type = "answer" => (m.room # Null /\ m.room = nRooms)

\* C22: an Answer is applied as remote description only while the session
\* of the room it names is being negotiated: that room is the current one,
\* its connection is the one the controller holds, this side sent the
\* Offer for it, and no remote description is set yet.
C22_AnswerAppliedOnlyWhenExpected ==
  [][\A i \in DOMAIN tasks :
       (tasks[i].pos = "srdAnswer" /\ Resume(i))
       => (/\ roomId # Null
           /\ tasks[i].room = roomId
           /\ tasks[i].pc = peerConnectionRef
           /\ roomId \in offered
           /\ ~pcs[tasks[i].pc].remote)]_vars

\* C23: an Offer is emitted only by a startCall that partnerFound started
\* with the Initiator role, for the room of that partnerFound, and at most
\* once per room; no startCall with the Responder role, the one the
\* 'offer' handler starts included, ever calls createOffer.
C23_OnlyInitiatorOffers ==
  [][/\ \A m \in emitted' :
          m.type = "offer"
          => (/\ m.room \notin offered
              /\ \E i \in DOMAIN tasks :
                    /\ tasks[i].pos = "sldOffer"
                    /\ tasks[i].init
                    /\ ~tasks[i].inOffer
                    /\ tasks[i].room = m.room
                    /\ Resume(i))
     /\ \A i \in DOMAIN tasks' :
          tasks'[i].pos \in {"createOffer", "sldOffer"} => tasks'[i].init
     /\ \A i \in DOMAIN tasks' : tasks'[i].inOffer => ~tasks'[i].init]_vars

\* C23, witness: the Initiator of the current room has just emitted its
\* Offer, the first and only one so far.
C23_InitiatorOffered ==
  /\ roomId # Null
  /\ emitted = {Msg("offer", roomId)}
  /\ offered = {roomId}

\* C24: a click on the button rendered for the current roomId emits, while
\* a session exists, exactly one Hangup with that roomId and runs cleanup:
\* the peer connection closed and dropped, roomId cleared, every local
\* source released; while no session exists it emits no Hangup.
C24_UserHangup ==
  [][(Click /\ rRoomId = roomId)
       => IF roomId # Null
            THEN /\ emitted' = {Msg("hangup", roomId)}
                 /\ peerConnectionRef' = Null
                 /\ LivePcs' = {}
                 /\ roomId' = Null
                 /\ localStreamRef' = Null
                 /\ LiveStreams' = {}
            ELSE \A m \in emitted' : m.type # "hangup"]_vars

\* C25: the search request of handleButtonClick emits FindPartner only from
\* Idle, with no session and no FindPartner of an earlier request still
\* unanswered: when media is granted it emits exactly one FindPartner and
\* the state becomes Searching; when media is denied it emits nothing,
\* reports the error and the status is Idle.
C25_SearchOnlyFromIdle ==
  [][\A i \in DOMAIN tasks :
       tasks[i].pos = "gumSearch"
       => /\ Resume(i)
               => (/\ callState = "Idle"
                   /\ roomId = Null
                   /\ pendingFind = 0
                   /\ emitted' = {Msg("findPartner", Null)}
                   /\ callState' = "Searching")
          /\ Fail(i)
               => (/\ emitted' = {}
                   /\ status' = StIdle
                   /\ error' = "audio")]_vars
====
